---- MODULE Spec2Model ----
(***************************************************************************)
(* Session router of the Express MCP weather server.                       *)
(*                                                                         *)
(* The repository holds two sources of the router: src/src/index.ts, which *)
(* creates a session only for an initialize request without an             *)
(* mcp-session-id header, and src/unnamed/part_009, which also adopts an   *)
(* unknown header on an initialize request.  `variant` selects the source; *)
(* everything else is common to both.                                      *)
(*                                                                         *)
(* Every `await` of the route handlers and of the SIGINT handler is a      *)
(* suspension point: the steps between two awaits form one action.         *)
(***************************************************************************)
EXTENDS Integers, FiniteSets, Sequences, TLC

\* ---------------------------------------------------------------- bounds
MaxIds == 2          \* distinct mcp-session-id strings
MaxHandlers == 3     \* transports constructed in one run
MaxInFlight == 2     \* requests suspended at an await at the same time
MaxObserved == 1     \* suspended POSTs, in the runs that record responses

Ids == 1..MaxIds
NoId == 0            \* undefined: no header / transport.sessionId unset
Handlers == 1..MaxHandlers
NoT == 0             \* undefined: transports[sessionId] has no entry

Variants == {"index", "part_009"}
Bodies == {"initialize", "notification", "call"}

VARIABLES
    variant,        \* which source of the router runs
    transports,     \* the registry: Record<string, StreamableHTTPServerTransport>
    nT,             \* number of transports constructed so far
    tGen,           \* per transport: the value its sessionIdGenerator returns
    tSessionId,     \* per transport: transport.sessionId
    tInitialized,   \* per transport: the handshake has been accepted
    tClosed,        \* per transport: number of close() calls received
    tStream,        \* per transport: the standalone GET stream is open
    reqs,           \* the requests suspended at an await, in order of arrival
    sd,             \* the SIGINT handler: position, entries still to visit
    obs,            \* whether the responses are recorded in `last`
    last,           \* the response written most recently, when recorded
    tool            \* the tools/call a server is handling, with its upstream calls

vars == <<variant, transports, nT, tGen, tSessionId, tInitialized, tClosed,
          tStream, reqs, sd, obs, last, tool>>

\* ------------------------------------------------------------- responses
CodeNotInitialized == 0 - 32000
CodeInvalidRequest == 0 - 32600
CodeSessionNotFound == 0 - 32001
CodeInternal == 0 - 32603
NoCode == 0

\* a response: the request it answers, the transport the request was handed
\* to (NoT: the router answered), and what was answered
Resp(verb, sid, body, t, out) ==
    [verb |-> verb, sid |-> sid, body |-> body, t |-> t, out |-> out]

NoResp == Resp("none", NoId, "none", NoT, "none")

\* the value of `last` after a response x was written
Written(x) == IF obs THEN x ELSE last

Status(out) ==
    CASE out \in {"result", "discarded", "stream", "ack", "aborted"} -> 200
      [] out = "accepted" -> 202
      [] out = "internal" -> 500
      [] out = "notAcceptable" -> 406
      [] out = "notFound" -> 404
      [] out = "conflict" -> 409
      [] OTHER -> 400

\* (mutant) every response that is not a success carries an error envelope
CodeEnvelopeEverywhere(verb, out) ==
    IF Status(out) \in {200, 202} THEN NoCode ELSE CodeNotInitialized

\* the `error.code` of the JSON-RPC envelope in a response, NoCode for a
\* response that is no error envelope (a success, or a text body)
Code(verb, out) ==
    CASE out \in {"result", "discarded", "stream", "ack", "accepted",
                  "aborted"} -> NoCode
      [] out = "reject" /\ verb # "POST" -> NoCode
      [] out = "internal" -> IF verb = "POST" THEN CodeInternal ELSE NoCode
      [] out = "notFound" -> CodeSessionNotFound
      [] out = "alreadyInitialized" -> CodeInvalidRequest
      [] OTHER -> CodeNotInitialized

\* a request suspended at an await: its position, its header, body and Accept
\* header, the transport it was routed to, whether it took the creation
\* branch, and whether the transport was closed under its pending response
Req(pc, verb, sid, body, acc, t, created, cut) ==
    [pc |-> pc, verb |-> verb, sid |-> sid, body |-> body, acc |-> acc,
     t |-> t, created |-> created, cut |-> cut]

\* no tools/call is being handled
NoCall == [pc |-> "idle"]

\* ------------------------------------------------------------ the router
\* (mutant) every JSON-RPC request, initialize or not, counts as a handshake
isRequest(body) == body # "notification"

isInitializeRequest(body) == body = "initialize"

\* (mutant) a request without a header opens a session whatever its body
CreationGuardNoBody(v, sid, body) ==
    IF v = "index" THEN sid = NoId ELSE isInitializeRequest(body)

\* the condition of the second branch of app.post, per source
CreationGuard(v, sid, body) ==
    IF v = "index"
    THEN sid = NoId /\ isInitializeRequest(body)
    ELSE isInitializeRequest(body)

\* (mutant) the creation branch is tried before the lookup
BranchCreationFirst(v, reg, sid, body) ==
    IF isInitializeRequest(body) /\ (v = "part_009" \/ sid = NoId) THEN "create"
    ELSE IF sid # NoId /\ reg[sid] # NoT THEN "lookup"
    ELSE "reject"

\* the branch app.post takes
Branch(v, reg, sid, body) ==
    IF sid # NoId /\ reg[sid] # NoT THEN "lookup"
    ELSE IF CreationGuard(v, sid, body) THEN "create"
    ELSE "reject"

Minted == {tGen[t] : t \in 1..nT}
FreshIds == Ids \ Minted
\* randomUUID(): an identifier no transport was ever given; identifiers are
\* opaque, so the least unused one stands for all of them.
\* (mutant) an identifier that is not unique: the same value on every call
constantUUID == CHOOSE i \in Ids : \A j \in Ids : i <= j

randomUUID == CHOOSE i \in FreshIds : \A j \in FreshIds : i <= j

\* (mutant) the header of the request is never adopted
NewSessionIdsRandom(v, sid) == IF FreshIds = {} THEN {} ELSE {randomUUID}

\* the identifiers the creation branch may register the new transport under
NewSessionIds(v, sid) ==
    IF v = "part_009" /\ sid # NoId THEN {sid}
    ELSE IF FreshIds = {} THEN {} ELSE {randomUUID}

\* (mutant) the transport is stored under every key that has no record
RegisterEverywhere(reg, id, t) ==
    [S \in Ids |-> IF reg[S] = NoT THEN t ELSE reg[S]]

\* (mutant) the transport is not stored before the request is handled
RegisterLate(reg, id, t) == reg

\* transports[newSessionId] = transport
Register(reg, id, t) == [reg EXCEPT ![id] = t]

\* (mutant) the transport generates an identifier of its own on the handshake
sessionIdGeneratorFresh(t) == IF FreshIds # {} THEN randomUUID ELSE tGen[t]

\* sessionIdGenerator: () => newSessionId
sessionIdGenerator(t) == tGen[t]

RemoveAt(seq, i) == SubSeq(seq, 1, i - 1) \o SubSeq(seq, i + 1, Len(seq))

\* --------------------------------------------------------- the transport
\* (mutant) a transport that accepts the handshake again
PostOutcomeReinit(t, sid, body, acc) ==
    IF ~acc THEN "notAcceptable"
    ELSE IF isInitializeRequest(body) THEN "initialize"
    ELSE IF ~tInitialized[t] THEN "notInitialized"
    ELSE IF sid = NoId THEN "headerRequired"
    ELSE IF sid # tSessionId[t] THEN "notFound"
    ELSE IF body = "notification" THEN "accepted"
    ELSE "request"

\* (mutant) a transport that does not ask whether the handshake took place
PostOutcomeNoInitCheck(t, sid, body, acc) ==
    IF ~acc THEN "notAcceptable"
    ELSE IF isInitializeRequest(body)
         THEN IF tInitialized[t] THEN "alreadyInitialized" ELSE "initialize"
    ELSE IF sid # NoId /\ sid # tSessionId[t] THEN "notFound"
    ELSE IF body = "notification" THEN "accepted"
    ELSE "request"

\* what handlePostRequest decides before it hands the message to the server
PostOutcome(t, sid, body, acc) ==
    IF ~acc THEN "notAcceptable"
    ELSE IF isInitializeRequest(body)
         THEN IF tInitialized[t] THEN "alreadyInitialized" ELSE "initialize"
    ELSE IF ~tInitialized[t] THEN "notInitialized"
    ELSE IF sid = NoId THEN "headerRequired"
    ELSE IF sid # tSessionId[t] THEN "notFound"
    ELSE IF body = "notification" THEN "accepted"
    ELSE "request"

\* (mutant) the transport validates no session, as one built without a
\* sessionIdGenerator
ValidateSessionOff(t, sid) == "ok"

\* validateSession of the transport, for GET and DELETE
ValidateSession(t, sid) ==
    IF ~tInitialized[t] THEN "notInitialized"
    ELSE IF sid = NoId THEN "headerRequired"
    ELSE IF sid # tSessionId[t] THEN "notFound"
    ELSE "ok"

\* what handleGetRequest decides (for a request that accepts an event stream)
GetOutcome(t, sid) ==
    IF ValidateSession(t, sid) # "ok" THEN ValidateSession(t, sid)
    ELSE IF tStream[t] THEN "conflict"
    ELSE "stream"

\* (mutant) a close callback that empties the registry
OnCloseClear(t, reg) == [S \in Ids |-> NoT]

\* (mutant) a close callback that leaves the registry alone
OnCloseKeep(t, reg) == reg

\* the close callback the router installs: the registry after it has run
OnClose(t, reg) ==
    IF tSessionId[t] # NoId THEN [reg EXCEPT ![tSessionId[t]] = NoT] ELSE reg

\* (mutant) a close that leaves the open responses as they are
CloseReqsKeep(t, rq) == rq

\* transport.close(): the responses still open on the transport are ended
CloseReqs(t, rq) ==
    [i \in 1..Len(rq) |->
        IF rq[i].pc = "awaitResp" /\ rq[i].t = t
        THEN [rq[i] EXCEPT !.cut = TRUE] ELSE rq[i]]

\* ------------------------------------------------------------------ Init
Init ==
    /\ variant \in Variants
    /\ transports = [i \in Ids |-> NoT]
    /\ nT = 0
    /\ tGen = [t \in Handlers |-> NoId]
    /\ tSessionId = [t \in Handlers |-> NoId]
    /\ tInitialized = [t \in Handlers |-> FALSE]
    /\ tClosed = [t \in Handlers |-> 0]
    /\ tStream = [t \in Handlers |-> FALSE]
    /\ reqs = <<>>
    /\ sd = [pc |-> "running", rest |-> <<>>]
    /\ obs = FALSE
    /\ last = NoResp
    /\ tool = NoCall

\* the same program with its responses recorded
InitObs ==
    /\ variant \in Variants
    /\ transports = [i \in Ids |-> NoT]
    /\ nT = 0
    /\ tGen = [t \in Handlers |-> NoId]
    /\ tSessionId = [t \in Handlers |-> NoId]
    /\ tInitialized = [t \in Handlers |-> FALSE]
    /\ tClosed = [t \in Handlers |-> 0]
    /\ tStream = [t \in Handlers |-> FALSE]
    /\ reqs = <<>>
    /\ sd = [pc |-> "running", rest |-> <<>>]
    /\ obs = TRUE
    /\ last = NoResp
    /\ tool = NoCall

\* a request is received while the process runs
\* (mutant) a server that takes no request while an event stream is open
AcceptingNoStream ==
    /\ sd.pc # "exited"
    /\ Len(reqs) < MaxInFlight
    /\ \A t \in 1..nT : ~tStream[t]

Accepting == sd.pc # "exited" /\ Len(reqs) < MaxInFlight

\* the POSTs suspended at an await
Posts == {i \in 1..Len(reqs) : reqs[i].verb = "POST"}

AcceptingPost == Accepting /\ (obs => Cardinality(Posts) < MaxObserved)

\* transport.handleRequest for a POST, up to its first suspension; `rest` are
\* the other suspended requests
Delegate(rest, t, sid, body, acc, created) ==
    LET o == PostOutcome(t, sid, body, acc) IN
    /\ tSessionId' = IF o = "initialize"
                     THEN [tSessionId EXCEPT ![t] = sessionIdGenerator(t)]
                     ELSE tSessionId
    /\ tInitialized' = IF o = "initialize"
                       THEN [tInitialized EXCEPT ![t] = TRUE] ELSE tInitialized
    /\ IF o \in {"initialize", "request"}
       THEN /\ reqs' = Append(rest, Req("awaitResp", "POST", sid, body, acc, t,
                                        created, tClosed[t] > 0))
            /\ last' = last
       ELSE /\ reqs' = rest
            /\ last' = Written(Resp("POST", sid, body, t, o))

\* app.post("/mcp"): from the arrival of the request to its first await
Post(sid, body, acc) ==
    /\ AcceptingPost
    /\ LET b == Branch(variant, transports, sid, body) IN
       \/ /\ b = "lookup"
          /\ Delegate(reqs, transports[sid], sid, body, acc, FALSE)
          /\ UNCHANGED <<transports, nT, tGen>>
       \/ /\ b = "create"
          /\ nT < MaxHandlers
          /\ \E newSessionId \in NewSessionIds(variant, sid) :
               LET t == nT + 1 IN
               /\ nT' = t
               /\ tGen' = [tGen EXCEPT ![t] = newSessionId]
               /\ transports' = Register(transports, newSessionId, t)
               /\ reqs' = Append(reqs, Req("connecting", "POST", sid, body,
                                           acc, t, TRUE, FALSE))
          /\ UNCHANGED <<tSessionId, tInitialized, last>>
       \/ /\ b = "reject"
          /\ last' = Written(Resp("POST", sid, body, NoT, "reject"))
          /\ UNCHANGED <<transports, nT, tGen, tSessionId, tInitialized, reqs>>
    /\ UNCHANGED <<variant, obs, tool, tClosed, tStream, sd>>

\* app.post("/mcp"), creation branch: after `await server.connect(transport)`
PostConnected(i) ==
    /\ sd.pc # "exited"
    /\ i \in 1..Len(reqs)
    /\ reqs[i].pc = "connecting"
    /\ Delegate(RemoveAt(reqs, i), reqs[i].t, reqs[i].sid, reqs[i].body,
                reqs[i].acc, TRUE)
    /\ UNCHANGED <<variant, obs, tool, transports, nT, tGen, tClosed, tStream, sd>>

\* the server's result for a request reaches the transport
Respond(i) ==
    /\ sd.pc # "exited"
    /\ i \in 1..Len(reqs)
    /\ reqs[i].pc = "awaitResp"
    /\ reqs' = RemoveAt(reqs, i)
    /\ last' = Written(Resp("POST", reqs[i].sid, reqs[i].body, reqs[i].t,
                    IF reqs[i].cut THEN "discarded" ELSE "result"))
    /\ UNCHANGED <<variant, obs, tool, transports, nT, tGen, tSessionId, tInitialized,
                   tClosed, tStream, sd>>

\* app.get("/mcp")
Get(sid) ==
    /\ Accepting
    /\ LET t == IF sid = NoId THEN NoT ELSE transports[sid] IN
       IF t = NoT
       THEN /\ last' = Written(Resp("GET", sid, "none", NoT, "reject"))
            /\ tStream' = tStream
       ELSE /\ last' = Written(Resp("GET", sid, "none", t, GetOutcome(t, sid)))
            /\ tStream' = IF GetOutcome(t, sid) = "stream"
                          THEN [tStream EXCEPT ![t] = TRUE] ELSE tStream
    /\ UNCHANGED <<variant, obs, tool, transports, nT, tGen, tSessionId, tInitialized,
                   tClosed, reqs, sd>>

\* the client drops the standalone stream of a transport
StreamClose(t) ==
    /\ sd.pc # "exited"
    /\ tStream[t]
    /\ tStream' = [tStream EXCEPT ![t] = FALSE]
    /\ UNCHANGED <<variant, obs, tool, transports, nT, tGen, tSessionId, tInitialized,
                   tClosed, reqs, sd, last>>

\* transport.close() on t: streams ended, the close callback run
Close(t, rq) ==
    /\ transports' = OnClose(t, transports)
    /\ tClosed' = [tClosed EXCEPT ![t] = @ + 1]
    /\ tStream' = [tStream EXCEPT ![t] = FALSE]
    /\ reqs' = rq

\* app.delete("/mcp"): up to `await this.close()` inside the transport
Delete(sid) ==
    /\ Accepting
    /\ LET t == IF sid = NoId THEN NoT ELSE transports[sid] IN
       IF t = NoT
       THEN /\ last' = Written(Resp("DELETE", sid, "none", NoT, "reject"))
            /\ UNCHANGED <<transports, tClosed, tStream, reqs>>
       ELSE IF ValidateSession(t, sid) # "ok"
       THEN /\ last' = Written(Resp("DELETE", sid, "none", t, ValidateSession(t, sid)))
            /\ UNCHANGED <<transports, tClosed, tStream, reqs>>
       ELSE /\ Close(t, Append(CloseReqs(t, reqs),
                               Req("closing", "DELETE", sid, "none", TRUE, t,
                                   FALSE, FALSE)))
            /\ last' = last
    /\ UNCHANGED <<variant, obs, tool, nT, tGen, tSessionId, tInitialized, sd>>

\* app.delete("/mcp"): after the transport's close, the 200 is written
DeleteAck(i) ==
    /\ sd.pc # "exited"
    /\ i \in 1..Len(reqs)
    /\ reqs[i].pc = "closing"
    /\ reqs' = RemoveAt(reqs, i)
    /\ last' = Written(Resp("DELETE", reqs[i].sid, "none", reqs[i].t, "ack"))
    /\ UNCHANGED <<variant, obs, tool, transports, nT, tGen, tSessionId, tInitialized,
                   tClosed, tStream, sd>>

\* (mutant) a catch block that writes its 500 whatever was sent before
CatchAlways(headersSent) == "internal"

\* the catch block of a route handler: `if (!res.headersSent)` the 500 is
\* written, else the response that was started stays the only one
CatchOutcome(headersSent) == IF headersSent THEN "aborted" ELSE "internal"

\* the promise a route handler awaits rejects: `server.connect`, or
\* `transport.handleRequest` before or after (headersSent) the response was
\* started; the catch block of the route handler runs
Throws(i, headersSent) ==
    /\ sd.pc # "exited"
    /\ i \in 1..Len(reqs)
    /\ headersSent => reqs[i].pc = "awaitResp"
    /\ reqs' = RemoveAt(reqs, i)
    /\ last' = Written(Resp(reqs[i].verb, reqs[i].sid, reqs[i].body, reqs[i].t,
                            CatchOutcome(headersSent)))
    /\ UNCHANGED <<variant, obs, tool, transports, nT, tGen, tSessionId, tInitialized,
                   tClosed, tStream, sd>>

\* Object.entries(transports): the records in insertion order, which is the
\* order in which their transports were constructed
\* (mutant) the records are visited newest first
RECURSIVE EntriesDownFrom(_)
EntriesDownFrom(t) ==
    IF t < 1 THEN <<>>
    ELSE IF tGen[t] # NoId /\ transports[tGen[t]] = t
         THEN <<t>> \o EntriesDownFrom(t - 1)
    ELSE EntriesDownFrom(t - 1)

EntriesReversed == EntriesDownFrom(nT)

RECURSIVE EntriesFrom(_)
EntriesFrom(t) ==
    IF t > nT THEN <<>>
    ELSE IF tGen[t] # NoId /\ transports[tGen[t]] = t
         THEN <<t>> \o EntriesFrom(t + 1)
    ELSE EntriesFrom(t + 1)

Entries == EntriesFrom(1)

\* process.on("SIGINT"): the snapshot, and the first iteration of the loop up
\* to `await transport.close()`; `rest` are the entries still to be visited
SigInt ==
    /\ sd.pc = "running"
    /\ IF Entries = <<>>
       THEN /\ sd' = [pc |-> "exited", rest |-> <<>>]
            /\ UNCHANGED <<transports, tClosed, tStream, reqs>>
       ELSE /\ sd' = [pc |-> "closing", rest |-> Tail(Entries)]
            /\ Close(Head(Entries), CloseReqs(Head(Entries), reqs))
    /\ UNCHANGED <<variant, obs, tool, nT, tGen, tSessionId, tInitialized, last>>

\* the SIGINT loop resumes after an await: next iteration, or process.exit(0)
ShutdownStep ==
    /\ sd.pc = "closing"
    /\ IF sd.rest # <<>>
       THEN /\ sd' = [sd EXCEPT !.rest = Tail(@)]
            /\ Close(Head(sd.rest), CloseReqs(Head(sd.rest), reqs))
       ELSE /\ sd' = [sd EXCEPT !.pc = "exited"]
            /\ UNCHANGED <<transports, tClosed, tStream, reqs>>
    /\ UNCHANGED <<variant, obs, tool, nT, tGen, tSessionId, tInitialized, last>>

Next ==
    \/ \E sid \in Ids \cup {NoId}, body \in Bodies, acc \in BOOLEAN :
          Post(sid, body, acc)
    \/ \E i \in 1..MaxInFlight : PostConnected(i)
    \/ \E i \in 1..MaxInFlight : Respond(i)
    \/ \E sid \in Ids \cup {NoId} : Get(sid)
    \/ \E t \in Handlers : StreamClose(t)
    \/ \E sid \in Ids \cup {NoId} : Delete(sid)
    \/ \E i \in 1..MaxInFlight : DeleteAck(i)
    \/ \E i \in 1..MaxInFlight, headersSent \in BOOLEAN : Throws(i, headersSent)
    \/ SigInt
    \/ ShutdownStep

Spec == Init /\ [][Next]_vars

SpecObs == InitObs /\ [][Next]_vars

TypeOK ==
    /\ variant \in Variants
    /\ transports \in [Ids -> Handlers \cup {NoT}]
    /\ nT \in 0..MaxHandlers
    /\ Len(reqs) <= MaxInFlight

\* ------------------------------------------------------- shared notions
Registered(t) == \E S \in Ids : transports[S] = t

\* the suspended requests that took the creation branch for identifier S
CreationsInFlight(S) ==
    {i \in 1..Len(reqs) : reqs[i].created /\ tGen[reqs[i].t] = S}

\* some transport that carries identifier S has received close()
ClosedFor(S) == \E u \in 1..nT : tSessionId[u] = S /\ tClosed[u] > 0

\* ------------------------------------------------------------------ C1
\* C1: creation is insert-if-absent in one step.  A record is only ever
\* written for an identifier that has none, by the very step that constructs
\* the transport, and that step leaves the transport registered under the
\* identifier its generator returns; while a creation request for S is
\* suspended and its record is in place, no step constructs another handler
\* for S.
C1_CreationAtomicity ==
    [][/\ \A S \in Ids :
            (transports'[S] # transports[S] /\ transports'[S] # NoT)
            => /\ transports[S] = NoT
               /\ nT' = nT + 1
               /\ transports'[S] = nT'
               /\ tGen'[nT'] = S
       /\ nT' # nT
            => /\ nT' = nT + 1
               /\ transports'[tGen'[nT']] = nT'
               /\ \A S \in Ids :
                    (\E i \in CreationsInFlight(S) : transports[S] = reqs[i].t)
                    => tGen'[nT'] # S]_vars

\* a creation request is suspended and a second request that carried the same
\* identifier is in flight on the same, only, handler of that identifier
C1_Witness ==
    \E i, j \in 1..Len(reqs) :
        /\ i # j
        /\ reqs[i].pc = "connecting"
        /\ reqs[j].sid = tGen[reqs[i].t]
        /\ reqs[j].t = reqs[i].t
        /\ Cardinality({t \in 1..nT : tGen[t] = tGen[reqs[i].t]}) = 1

NoRecord(sid) == sid = NoId \/ transports[sid] = NoT

\* everything but the response: registry, transports, suspended requests
Unchanged == UNCHANGED <<transports, nT, tGen, tSessionId, tInitialized,
                         tClosed, tStream, reqs, sd>>

\* C4: a POST whose body is no initialize request, a GET and a DELETE that
\* match no record are each answered 400 by the router itself (the POST with
\* JSON-RPC error -32000), no transport is constructed and the registry, the
\* transports and the suspended requests stay as they were.
C4_NoSessionNoService ==
    [][\A sid \in Ids \cup {NoId} :
          NoRecord(sid)
          => /\ \A body \in Bodies, acc \in BOOLEAN :
                   (~isInitializeRequest(body) /\ Post(sid, body, acc))
                   => /\ last' = Resp("POST", sid, body, NoT, "reject")
                      /\ Status(last'.out) = 400
                      /\ Code("POST", last'.out) = CodeNotInitialized
                      /\ Unchanged
             /\ Get(sid)
                   => /\ last' = Resp("GET", sid, "none", NoT, "reject")
                      /\ Status(last'.out) = 400
                      /\ Unchanged
             /\ Delete(sid)
                   => /\ last' = Resp("DELETE", sid, "none", NoT, "reject")
                      /\ Status(last'.out) = 400
                      /\ Unchanged]_vars

\* a POST that is no initialize request was rejected for an identifier without
\* a record while another session is registered
C4_Witness ==
    /\ last.verb = "POST"
    /\ last.out = "reject"
    /\ last.body = "call"
    /\ last.sid # NoId
    /\ transports[last.sid] = NoT
    /\ \E S \in Ids : transports[S] # NoT

\* ------------------------------------------------------------------ C5
\* this step hands the POST (sid, body) to transport t through the lookup
\* branch: t answers at once, or the request is suspended on t
HandledBy(t, sid, body) ==
    /\ nT' = nT
    /\ transports' = transports
    /\ \/ /\ reqs' = reqs
          /\ last'.verb = "POST" /\ last'.sid = sid /\ last'.body = body
          /\ last'.t = t
       \/ /\ Len(reqs') = Len(reqs) + 1
          /\ reqs'[Len(reqs')].t = t
          /\ reqs'[Len(reqs')].sid = sid
          /\ reqs'[Len(reqs')].body = body
          /\ ~reqs'[Len(reqs')].created

\* this step constructs a transport for the POST (sid, body), registers it and
\* suspends the request at `server.connect`
CreatedFor(sid, body) ==
    /\ nT' = nT + 1
    /\ transports'[tGen'[nT']] = nT'
    /\ Len(reqs') = Len(reqs) + 1
    /\ reqs'[Len(reqs')] = Req("connecting", "POST", sid, body,
                               reqs'[Len(reqs')].acc, nT', TRUE, FALSE)

\* this step answers the POST (sid, body) with the router's own 400
RejectedAt(sid, body) ==
    /\ last' = Resp("POST", sid, body, NoT, "reject")
    /\ Unchanged

\* what a POST step did, against the branch a table names for it
Took(b, sid, body) ==
    CASE b = "lookup" -> HandledBy(transports[sid], sid, body)
      [] b = "create" -> CreatedFor(sid, body)
      [] OTHER -> RejectedAt(sid, body)

C6_IdentifierRoundTrip ==
    /\ [](/\ \A t \in 1..nT :
                 /\ tSessionId[t] \in {NoId, tGen[t]}
                 /\ tInitialized[t] => tSessionId[t] = tGen[t]
          /\ \A S \in Ids : transports[S] # NoT => tGen[transports[S]] = S
          /\ (last.body = "initialize" /\ last.out = "result")
                => tSessionId[last.t] = tGen[last.t])
    /\ [][\A sid \in Ids :
             transports[sid] # NoT
             => /\ \A body \in Bodies, acc \in BOOLEAN :
                      Post(sid, body, acc)
                      => /\ HandledBy(transports[sid], sid, body)
                         /\ tSessionId'[transports[sid]] \in {NoId, sid}
                /\ Get(sid)
                      => /\ last'.t = transports[sid]
                         /\ last'.verb = "GET"
                         /\ last'.sid = sid]_vars

\* a request that carried the identifier of a session was answered by the
\* transport that reports that identifier and is registered under it
C6_Witness ==
    /\ last.verb = "POST"
    /\ last.body = "call"
    /\ last.out = "result"
    /\ last.sid = tSessionId[last.t]
    /\ transports[last.sid] = last.t

\* ------------------------------------------------------------------ C7
\* a DELETE for S has closed a transport of S and has been answered, and the
\* process is not shutting down
Terminated(S) ==
    /\ sd.pc = "running"
    /\ \E t \in 1..nT :
          /\ tGen[t] = S
          /\ tClosed[t] > 0
          /\ \A i \in 1..Len(reqs) : ~(reqs[i].pc = "closing" /\ reqs[i].t = t)

\* this step hands a POST to a transport, which accepts it
Submitted ==
    /\ tClosed' = tClosed
    /\ reqs' # reqs
    /\ Len(reqs') >= Len(reqs)
    /\ Len(reqs') > 0
    /\ reqs'[Len(reqs')].pc = "awaitResp"

C8_TerminateRemovesRecord ==
    [][\A sid \in Ids :
          (/\ transports[sid] # NoT
           /\ \A i \in 1..Len(reqs) : reqs[i].t # transports[sid]
           /\ Delete(sid))
          => /\ tClosed'[transports[sid]] = tClosed[transports[sid]] + 1
             /\ transports'[sid] = NoT]_vars

\* ------------------------------------------------------------------ C9
\* a transport that took identifier S has been closed
ClosedBefore(S) == \E t \in 1..nT : tSessionId[t] = S /\ tClosed[t] > 0

\* C9 as stated: a DELETE for an identifier that a DELETE has already
\* terminated succeeds like the first: it is not answered with an error.
C9_IdempotentTerminate ==
    [][\A sid \in Ids :
          (sd.pc = "running" /\ ClosedBefore(sid) /\ Delete(sid))
          => /\ last' = last
             /\ Len(reqs') = Len(reqs) + 1
             /\ reqs'[Len(reqs')].pc = "closing"]_vars

\* C9 as amended: the first DELETE removes the record in the step that closes
\* the transport and is acknowledged with 200; a second DELETE for the same
\* identifier, whether the first is still waiting for the close or has been
\* answered, finds no record and is answered 400 "Invalid session" by the
\* router; it closes nothing and changes nothing.
C9_SecondTerminateRejected ==
    [][/\ \A sid \in Ids :
            /\ (transports[sid] # NoT /\ Delete(sid) /\ tClosed' # tClosed)
                 => transports'[sid] = NoT
            /\ (ClosedBefore(sid) /\ transports[sid] = NoT /\ Delete(sid))
                 => /\ last' = Resp("DELETE", sid, "none", NoT, "reject")
                    /\ Status(last'.out) = 400
                    /\ Unchanged
       /\ \A i \in 1..MaxInFlight :
            DeleteAck(i) => last'.out = "ack" /\ Status(last'.out) = 200]_vars

\* a second DELETE was rejected while the first still waits for the close
C9_Witness ==
    /\ last.verb = "DELETE"
    /\ last.out = "reject"
    /\ last.sid # NoId
    /\ \E i \in 1..Len(reqs) :
          reqs[i].pc = "closing" /\ reqs[i].sid = last.sid

\* ----------------------------------------------------------------- C10
\* C10: a record is removed only by the close of the transport it maps to.
C10_CloseRemovesOwnRecord ==
    [][\A S \in Ids :
          (transports[S] # NoT /\ transports'[S] = NoT)
          => tClosed'[transports[S]] = tClosed[transports[S]] + 1]_vars

\* ----------------------------------------------------------------- C11
\* the transports a sequence of entries names
Range(seq) == {seq[i] : i \in 1..Len(seq)}

\* C11: when the SIGINT handler has run to its end, with no request left
\* suspended, the registry is empty, and
\* every transport that was registered when it began has received close():
\* the first step takes all registered transports, every step closes the one
\* it visits and keeps the others to visit, and none is left at the end.
C11_CleanupOnShutdown ==
    /\ [](sd.pc = "exited"
           => /\ reqs = <<>> => \A S \in Ids : transports[S] = NoT
              /\ sd.rest = <<>>)
    /\ [][/\ (sd.pc = "running" /\ sd'.pc # "running")
               => \A t \in 1..nT :
                     Registered(t) => tClosed'[t] > 0 \/ t \in Range(sd'.rest)
          /\ (sd.pc = "closing" /\ sd' # sd)
               => \A t \in Range(sd.rest) :
                     tClosed'[t] > tClosed[t] \/ t \in Range(sd'.rest)]_vars

\* ----------------------------------------------------------------- C12
\* the registered transport constructed first
FirstRegistered ==
    CHOOSE t \in 1..nT : Registered(t) /\ \A u \in 1..nT : Registered(u) => t <= u

HandlerState(t) ==
    <<tGen[t], tSessionId[t], tInitialized[t], tClosed[t], tStream[t]>>

OnTransport(r, t) == r.t = t

\* the requests suspended on transport t, in order of arrival
ReqsOn(t) == SelectSeq(reqs, LAMBDA r : OnTransport(r, t))

\* this step serves conversation A: a request that carries A arrives, or a
\* suspended request of a transport constructed for A resumes
StepOf(A) ==
    \/ \E body \in Bodies, acc \in BOOLEAN : Post(A, body, acc)
    \/ Get(A)
    \/ Delete(A)
    \/ \E i \in 1..Len(reqs) :
          /\ tGen[reqs[i].t] = A
          /\ PostConnected(i) \/ Respond(i) \/ DeleteAck(i)
    \/ \E t \in 1..nT : tGen[t] = A /\ StreamClose(t)

\* C13: a step that serves conversation A leaves the record of every other
\* conversation B, the state of B's transport and the requests suspended on
\* it as they were; what B's transport answers is computed from these alone.
C13_Isolation ==
    [][\A A, B \in Ids :
          (A # B /\ transports[B] # NoT /\ StepOf(A))
          => /\ transports'[B] = transports[B]
             /\ HandlerState(transports[B])' = HandlerState(transports[B])
             /\ ReqsOn(transports[B])' = ReqsOn(transports[B])]_vars

\* conversation A is being terminated while a request of conversation B is
\* suspended on B's transport, untouched
C13_Witness ==
    \E A, B \in Ids :
        /\ A # B
        /\ transports[A] = NoT
        /\ transports[B] # NoT
        /\ tInitialized[transports[B]]
        /\ \E i, j \in 1..Len(reqs) :
              /\ reqs[i].pc = "closing" /\ reqs[i].sid = A
              /\ reqs[j].pc = "awaitResp" /\ reqs[j].t = transports[B]
              /\ ~reqs[j].cut

\* ----------------------------------------------------------------- C14
\* C14 as stated: a request other than the two handshake messages is not
\* accepted by a transport before the acknowledgment has reached it; in
\* particular not while the response written last is the result of that
\* transport's handshake, when no acknowledgment can have followed yet.
C14_StrictHandshake ==
    \A i \in 1..Len(reqs) :
        (reqs[i].pc = "awaitResp" /\ reqs[i].body = "call")
        => last # Resp("POST", last.sid, "initialize", reqs[i].t, "result")

\* C14 as amended: a transport leaves the uninitialized state in the step
\* that hands it an initialize request, and never returns to it.  Before
\* that, a POST with another body, a GET and a DELETE that reach it are
\* answered 400 (not initialized, -32000 on POST) and change neither the
\* record nor the transport.  After that, a request that carries the session
\* id is accepted whether or not the acknowledgment has been received.
C14_HandshakeFirst ==
    [][/\ \A t \in Handlers :
            /\ tInitialized[t] => tInitialized'[t]
            /\ (~tInitialized[t] /\ tInitialized'[t])
                 => /\ Submitted
                    /\ reqs'[Len(reqs')].t = t
                    /\ reqs'[Len(reqs')].body = "initialize"
                    /\ tSessionId'[t] = tGen[t]
       /\ \A sid \in Ids :
            (transports[sid] # NoT /\ ~tInitialized[transports[sid]])
            => /\ \A body \in Bodies :
                     (body # "initialize" /\ Post(sid, body, TRUE))
                     => /\ last' = Resp("POST", sid, body, transports[sid],
                                        "notInitialized")
                        /\ Status(last'.out) = 400
                        /\ Code("POST", last'.out) = CodeNotInitialized
                        /\ Unchanged
               /\ (Get(sid) \/ Delete(sid))
                     => /\ last'.out = "notInitialized"
                        /\ last'.t = transports[sid]
                        /\ Unchanged
       /\ \A sid \in Ids :
            (/\ transports[sid] # NoT
             /\ tInitialized[transports[sid]]
             /\ tSessionId[transports[sid]] = sid
             /\ Post(sid, "call", TRUE))
            => /\ Submitted
               /\ reqs'[Len(reqs')].t = transports[sid]
               /\ reqs'[Len(reqs')].body = "call"]_vars

\* a request other than the handshake reached a registered transport before
\* its handshake and was answered not initialized; the record is still there
C14_Witness ==
    /\ last.verb = "POST"
    /\ last.body = "call"
    /\ last.out = "notInitialized"
    /\ last.sid # NoId
    /\ transports[last.sid] = last.t
    /\ ~tInitialized[last.t]

\* ----------------------------------------------------------------- C15
\* C15: an initialize request (with an Accept header the transport admits)
\* that carries the identifier of a record whose transport has already been
\* handed a handshake, closed since or not, is answered 400 with JSON-RPC
\* error -32600 (already initialized) by that transport; no transport is
\* constructed and record, transports and suspended requests stay as they were.
C15_InitializeOnce ==
    [][\A sid \in Ids :
          (/\ transports[sid] # NoT
           /\ tInitialized[transports[sid]]
           /\ Post(sid, "initialize", TRUE))
          => /\ last' = Resp("POST", sid, "initialize", transports[sid],
                             "alreadyInitialized")
             /\ Status(last'.out) = 400
             /\ Code("POST", last'.out) = CodeInvalidRequest
             /\ Unchanged]_vars

\* a second initialize request for a live session was answered already
\* initialized by the transport of the session, which is still registered
C15_Witness ==
    /\ last.verb = "POST"
    /\ last.body = "initialize"
    /\ last.out = "alreadyInitialized"
    /\ last.sid # NoId
    /\ transports[last.sid] = last.t
    /\ tSessionId[last.t] = last.sid
    /\ tClosed[last.t] = 0

C17_ServerAssignedOnly ==
    [][\A sid \in Ids \cup {NoId}, body \in Bodies, acc \in BOOLEAN :
          Post(sid, body, acc)
          => /\ (sid # NoId /\ transports[sid] = NoT)
                  => /\ RejectedAt(sid, body)
                     /\ Status(last'.out) = 400
             /\ nT' # nT
                  => /\ sid = NoId
                     /\ body = "initialize"
                     /\ tGen'[nT'] \notin Minted]_vars

\* ----------------------------------------------------------------- C18
\* the response `out` answers the suspended request r
Answers(out, r) ==
    /\ out.verb = r.verb
    /\ out.sid = r.sid
    /\ out.body = r.body
    /\ out.t = r.t

\* C18: while the process runs, a suspended request leaves the requests in
\* flight only in a step that writes the response to it, and a step that
\* writes a response keeps every other request in flight as it was; when an
\* awaited call rejects before the response was started, the response is the
\* 500 (with code -32603 for a POST), and when the response was started no
\* 500 is written; such a step changes neither the registry, the transports
\* nor the state of the process.
C18_ErrorsContained ==
    [][/\ (Len(reqs') < Len(reqs))
            => \E i \in 1..Len(reqs) : /\ reqs' = RemoveAt(reqs, i)
                                       /\ Answers(last', reqs[i])
       /\ (last' # last)
            => \/ reqs' = reqs
               \/ \E i \in 1..Len(reqs) : /\ reqs' = RemoveAt(reqs, i)
                                          /\ Answers(last', reqs[i])
       /\ \A i \in 1..Len(reqs), headersSent \in BOOLEAN :
             Throws(i, headersSent)
             => /\ ~headersSent
                     => /\ Status(last'.out) = 500
                        /\ reqs[i].verb = "POST"
                             => Code("POST", last'.out) = CodeInternal
                /\ headersSent => Status(last'.out) # 500
                /\ sd' = sd /\ sd.pc # "exited"
                /\ UNCHANGED <<transports, nT, tGen, tSessionId, tInitialized,
                               tClosed, tStream>>]_vars

\* a creation whose connect rejected was answered 500 with code -32603, its
\* record being still in the registry
C18_Witness ==
    /\ last.verb = "POST"
    /\ last.out = "internal"
    /\ Code(last.verb, last.out) = CodeInternal
    /\ last.t # NoT
    /\ tSessionId[last.t] = NoId
    /\ \E S \in Ids : transports[S] = last.t

\* ----------------------------------------------------------------- C19
\* the classification errors of the router and of the transport
ClassificationErrors ==
    {"reject", "notInitialized", "headerRequired", "notFound",
     "alreadyInitialized"}

StreamOpen == \E t \in 1..nT : tStream[t]

\* C20: while an event stream is open and the process has not exited, every
\* suspended request can take its next step, and (below the bound on the
\* requests in flight, on the transports and on the identifiers) a GET, a
\* DELETE and a POST of every session, that of the stream included, can be
\* received and handled up to its first await.
C20_StreamDoesNotBlock ==
    (StreamOpen /\ sd.pc # "exited")
    => /\ \A i \in 1..Len(reqs) :
            ENABLED (PostConnected(i) \/ Respond(i) \/ DeleteAck(i))
       /\ Len(reqs) < MaxInFlight
            => \A sid \in Ids \cup {NoId} :
                 /\ ENABLED Get(sid)
                 /\ ENABLED Delete(sid)
                 /\ \A body \in Bodies, acc \in BOOLEAN :
                      (Branch(variant, transports, sid, body) = "create"
                          => /\ nT < MaxHandlers
                             /\ NewSessionIds(variant, sid) # {})
                      => ENABLED Post(sid, body, acc)

\* a stream is open on one session while a request of the same session is
\* being served and another session is registered and initialized
C20_Witness ==
    \E t \in 1..nT :
       /\ tStream[t]
       /\ \E i \in 1..Len(reqs) : /\ reqs[i].t = t
                                  /\ reqs[i].pc = "awaitResp"
                                  /\ reqs[i].body = "call"
                                  /\ ~reqs[i].cut
       /\ \E u \in 1..nT : /\ u # t
                           /\ tInitialized[u]
                           /\ tSessionId[u] # NoId
                           /\ transports[tSessionId[u]] = u

\* ----------------------------------------------------------------- C21
\* C21: a POST whose identifier has a record, and a GET, change neither the
\* registry nor the number of transports, and the POST is handed with its
\* header, body and Accept header to the transport of the record; the
\* registry changes only by the insertion of one new transport under a key
\* that had no record, or, in a step that closes a transport, by the removal
\* of the record under that transport's session id.
C21_LookupFrame ==
    [][/\ (transports' # transports)
            => \/ /\ nT' = nT + 1
                  /\ transports[tGen'[nT']] = NoT
                  /\ transports' = [transports EXCEPT ![tGen'[nT']] = nT']
               \/ /\ nT' = nT
                  /\ \E t \in 1..nT :
                        /\ tClosed'[t] = tClosed[t] + 1
                        /\ tSessionId[t] # NoId
                        /\ transports' = [transports EXCEPT ![tSessionId[t]] = NoT]
       /\ \A sid \in Ids :
             (transports[sid] # NoT)
             => /\ Get(sid) => (transports' = transports /\ nT' = nT)
                /\ \A body \in Bodies, acc \in BOOLEAN :
                      Post(sid, body, acc)
                      => /\ transports' = transports
                         /\ nT' = nT
                         /\ Len(reqs') > Len(reqs)
                              => LET r == reqs'[Len(reqs')] IN
                                 /\ r.t = transports[sid]
                                 /\ r.sid = sid
                                 /\ r.body = body
                                 /\ r.acc = acc
                                 /\ ~r.created]_vars

\* a request that took the lookup branch is being served by the transport of
\* its record while a stream opened by a GET is open on the same transport
C21_Witness ==
    \E i \in 1..Len(reqs) :
       /\ reqs[i].pc = "awaitResp"
       /\ ~reqs[i].created
       /\ reqs[i].sid # NoId
       /\ transports[reqs[i].sid] = reqs[i].t
       /\ tStream[reqs[i].t]

\* ----------------------------------------------------------------- C22
\* the transport of suspended request r has been closed
ClosedUnder(r) == r.pc = "awaitResp" /\ tClosed[r.t] > 0

MaxStateLen == 3      \* characters in a `state` argument
MaxFeatures == 2      \* alerts in an upstream reply
MaxPeriods == 2       \* forecast periods in an upstream reply

\* JavaScript values: undefined, NaN, a string (a sequence of pieces, a piece
\* being one character where the length matters), a number
Undef == [k |-> "undefined", s |-> <<>>, n |-> 0]
NaN == [k |-> "NaN", s |-> <<>>, n |-> 0]
Str(s) == [k |-> "string", s |-> s, n |-> 0]
Num(n) == [k |-> "number", s |-> <<>>, n |-> n]

\* a value that `||` replaces by its right-hand side
Falsy(v) ==
    \/ v.k \in {"undefined", "NaN"}
    \/ v.k = "string" /\ v.s = <<>>
    \/ v.k = "number" /\ v.n = 0

\* x || d
OrElse(v, d) == IF Falsy(v) THEN d ELSE v

\* `${v}` for a string or an integer
Text(v) ==
    CASE v.k = "string" -> v.s
      [] v.k = "number" -> <<ToString(v.n)>>
      [] OTHER -> <<v.k>>

\* coordinates are numbers with five decimals, held as integers
Scale == 100000
Abs(x) == IF x < 0 THEN 0 - x ELSE x
Sign(x) == IF x < 0 THEN <<"-">> ELSE <<>>

\* the decimal digits of f, written with `width` digits
RECURSIVE Padded(_, _)
Padded(f, width) ==
    IF width = 0 THEN <<>>
    ELSE Append(Padded(f \div 10, width - 1), ToString(f % 10))

\* the same without the zeros at the end
RECURSIVE Trimmed(_)
Trimmed(digits) ==
    IF digits # <<>> /\ digits[Len(digits)] = "0"
    THEN Trimmed(SubSeq(digits, 1, Len(digits) - 1))
    ELSE digits

\* Number.prototype.toFixed(4) of a coordinate (no sample is a tie)
toFixed4(x) ==
    LET r == (Abs(x) + 5) \div 10 IN
    Sign(x) \o <<ToString(r \div 10000), ".">> \o Padded(r % 10000, 4)

\* `${x}` of a coordinate
CoordText(x) ==
    LET a == Abs(x) IN
    IF a % Scale = 0 THEN Sign(x) \o <<ToString(a \div Scale)>>
    ELSE Sign(x) \o <<ToString(a \div Scale), ".">>
         \o Trimmed(Padded(a % Scale, 5))

\* String.prototype.toUpperCase, on the letters of the samples
UpperChar(c) == CASE c = "c" -> "C" [] c = "n" -> "N" [] OTHER -> c
toUpperCase(s) == [i \in 1..Len(s) |-> UpperChar(s[i])]

NWS_API_BASE == "https://api.weather.gov"

\* ---- the declared input shapes (zod)
\* z.string().length(2)
ValidState(v) == v.k = "string" /\ Len(v.s) = 2

\* (mutant) z.number().gt(lo).lt(hi): the bounds excluded
ValidNumberStrict(v, lo, hi) == v.k = "number" /\ lo < v.n /\ v.n < hi

\* z.number().min(lo).max(hi)
ValidNumber(v, lo, hi) == v.k = "number" /\ lo <= v.n /\ v.n <= hi

ToolNames == {"get-alerts", "get-forecast"}

\* safeParseAsync of the arguments against the shape of the tool
ValidArgs(name, args) ==
    IF name = "get-alerts" THEN ValidState(args.state)
    ELSE /\ ValidNumber(args.latitude, 0 - 90 * Scale, 90 * Scale)
         /\ ValidNumber(args.longitude, 0 - 180 * Scale, 180 * Scale)

\* ---- results
InvalidParams == 0 - 32602

\* a JSON-RPC error response
ErrorResponse(code) ==
    [kind |-> "error", code |-> code, isError |-> FALSE, content |-> <<>>]

\* a CallToolResult with one text block
TextResult(text) ==
    [kind |-> "result", code |-> 0, isError |-> FALSE,
     content |-> <<[type |-> "text", text |-> text]>>]

NoResult == [kind |-> "none", code |-> 0, isError |-> FALSE, content |-> <<>>]

\* ---- upstream replies
\* what fetch and response.json() produce: a rejection, a status that is not
\* OK, a body that is no JSON, or a body
Failures == {"rejected", "notOk", "notJson"}
Reply(kind, body) == [kind |-> kind, body |-> body]

\* (mutant) a request function without the try/catch: a failure is thrown
makeNWSRequestThrows(r) ==
    [null |-> FALSE, threw |-> r.kind # "ok", body |-> r.body]

\* makeNWSRequest: the parsed body, or null
makeNWSRequest(r) ==
    [null |-> r.kind # "ok", threw |-> FALSE, body |-> r.body]

\* ---- sample data
Chars == {"c", "A"}
RECURSIVE StringsUpTo(_)
StringsUpTo(len) ==
    IF len = 0 THEN {<<>>}
    ELSE StringsUpTo(len - 1)
         \cup {Append(w, c) : w \in {v \in StringsUpTo(len - 1) : Len(v) = len - 1},
                              c \in Chars}

StateArgs == {Str(w) : w \in StringsUpTo(MaxStateLen)} \cup {Undef, Num(12)}
Latitudes ==
    {Num(0 - 90 * Scale - 1), Num(0 - 90 * Scale), Num(4071284),
     Num(90 * Scale), Num(90 * Scale + 1), NaN, Str(<<"4", "0">>)}
Longitudes ==
    {Num(0 - 180 * Scale - 1), Num(0 - 180 * Scale), Num(0 - 7400603),
     Num(180 * Scale), Num(180 * Scale + 1), Undef}

AlertsArgs(v) == [state |-> v, latitude |-> Undef, longitude |-> Undef]
ForecastArgs(lat, lon) == [state |-> Undef, latitude |-> lat, longitude |-> lon]
Calls ==
    {[name |-> "get-alerts", args |-> AlertsArgs(v)] : v \in StateArgs}
    \cup {[name |-> "get-forecast", args |-> ForecastArgs(lat, lon)] :
              lat \in Latitudes, lon \in Longitudes}
    \cup {[name |-> "get-tides", args |-> AlertsArgs(Str(<<"c", "A">>))]}

RECURSIVE ListsUpTo(_, _)
ListsUpTo(S, len) ==
    IF len = 0 THEN {<<>>}
    ELSE ListsUpTo(S, len - 1)
         \cup {Append(w, x) : w \in {v \in ListsUpTo(S, len - 1) : Len(v) = len - 1},
                              x \in S}

\* AlertFeature.properties
Features ==
    {[event |-> Str(<<"Flood Warning">>), areaDesc |-> Str(<<"Kings">>),
      severity |-> Str(<<"Severe">>), status |-> Str(<<"Actual">>),
      headline |-> Str(<<"Flood Warning issued">>)],
     [event |-> Undef, areaDesc |-> Undef, severity |-> Undef,
      status |-> Undef, headline |-> Undef],
     [event |-> Str(<<>>), areaDesc |-> Str(<<"Kings">>),
      severity |-> Undef, status |-> Str(<<"Actual">>), headline |-> Str(<<>>)]}

\* ForecastPeriod
Periods ==
    {[name |-> Str(<<"Tonight">>), temperature |-> Num(55),
      temperatureUnit |-> Str(<<"F">>), windSpeed |-> Str(<<"5 mph">>),
      windDirection |-> Str(<<"NW">>), shortForecast |-> Str(<<"Clear">>)],
     [name |-> Str(<<"Monday">>), temperature |-> Num(0),
      temperatureUnit |-> Str(<<"C">>), windSpeed |-> Str(<<"10 mph">>),
      windDirection |-> Undef, shortForecast |-> Str(<<"Snow">>)],
     [name |-> Undef, temperature |-> Undef, temperatureUnit |-> Undef,
      windSpeed |-> Undef, windDirection |-> Undef, shortForecast |-> Undef]}

ForecastUrl == Str(<<"https://api.weather.gov/gridpoints/OKX/33,35/forecast">>)

\* bodies of the three endpoints: { features }, { properties: { forecast } },
\* { properties: { periods } }; `present` is whether the member exists
AlertsBodies ==
    {[present |-> TRUE, features |-> l] : l \in ListsUpTo(Features, MaxFeatures)}
    \cup {[present |-> FALSE, features |-> <<>>]}
PointsBodies ==
    {[present |-> TRUE, forecast |-> u] : u \in {ForecastUrl, Undef, Str(<<>>)}}
    \cup {[present |-> FALSE, forecast |-> Undef]}
ForecastBodies ==
    {[present |-> TRUE, periods |-> l] : l \in ListsUpTo(Periods, MaxPeriods)}
    \cup {[present |-> FALSE, periods |-> <<>>]}
NoBody == [present |-> FALSE]
Replies(bodies) ==
    {Reply(f, NoBody) : f \in Failures} \cup {Reply("ok", b) : b \in bodies}

\* ---- the tool functions
\* strings.join("\n")
RECURSIVE Join(_)
Join(texts) ==
    IF texts = <<>> THEN <<>>
    ELSE IF Len(texts) = 1 THEN texts[1]
    ELSE texts[1] \o <<"\n">> \o Join(Tail(texts))

formatAlert(props) ==
    Join(<< <<"Event: ">> \o Text(OrElse(props.event, Str(<<"Unknown">>))),
            <<"Area: ">> \o Text(OrElse(props.areaDesc, Str(<<"Unknown">>))),
            <<"Severity: ">> \o Text(OrElse(props.severity, Str(<<"Unknown">>))),
            <<"Status: ">> \o Text(OrElse(props.status, Str(<<"Unknown">>))),
            <<"Headline: ">> \o Text(OrElse(props.headline, Str(<<"No headline">>))),
            <<"---">> >>)

formatPeriod(period) ==
    Join(<< Text(OrElse(period.name, Str(<<"Unknown">>))) \o <<":">>,
            <<"Temperature: ">>
               \o Text(OrElse(period.temperature, Str(<<"Unknown">>)))
               \o <<"°">> \o Text(OrElse(period.temperatureUnit, Str(<<"F">>))),
            <<"Wind: ">> \o Text(OrElse(period.windSpeed, Str(<<"Unknown">>)))
               \o <<" ">> \o Text(OrElse(period.windDirection, Str(<<>>))),
            Text(OrElse(period.shortForecast, Str(<<"No forecast available">>))),
            <<"---">> >>)

alertsUrl(args) == <<NWS_API_BASE, "/alerts?area=">> \o toUpperCase(args.state.s)
pointsUrl(args) ==
    <<NWS_API_BASE, "/points/">> \o toFixed4(args.latitude.n) \o <<",">>
       \o toFixed4(args.longitude.n)

\* get-alerts after `await makeNWSRequest(alertsUrl)`
alertsResult(args, alertsData) ==
    LET stateCode == toUpperCase(args.state.s)
        features == IF alertsData.body.present THEN alertsData.body.features
                    ELSE <<>>
    IN IF alertsData.null
       THEN TextResult(<<"Failed to retrieve alerts data">>)
       ELSE IF Len(features) = 0
       THEN TextResult(<<"No active alerts for ">> \o stateCode)
       ELSE TextResult(<<"Active alerts for ">> \o stateCode \o <<":\n\n">>
                       \o Join([i \in 1..Len(features) |-> formatAlert(features[i])]))

\* get-forecast after `await makeNWSRequest(forecastUrl)`
forecastResult(args, forecastData) ==
    LET periods == IF forecastData.body.present THEN forecastData.body.periods
                   ELSE <<>>
    IN IF forecastData.null
       THEN TextResult(<<"Failed to retrieve forecast data">>)
       ELSE IF Len(periods) = 0
       THEN TextResult(<<"No forecast periods available">>)
       ELSE TextResult(<<"Forecast for ">> \o CoordText(args.latitude.n)
                       \o <<", ">> \o CoordText(args.longitude.n) \o <<":\n\n">>
                       \o Join([i \in 1..Len(periods) |-> formatPeriod(periods[i])]))

\* ---- one tools/call
Handling(pc, name, args, up, result) ==
    [pc |-> pc, name |-> name, args |-> args, up |-> up, result |-> result]

\* an exception of the tool function: McpServer answers with an error result
Thrown == [kind |-> "result", code |-> 0, isError |-> TRUE,
           content |-> <<[type |-> "text", text |-> <<"error.message">>]>>]

\* the state before any call, with the router at rest
InitTools ==
    /\ Init
    /\ variant = "index"

\* tools/call arrives at the McpServer: tool lookup, validation, and the tool
\* function up to its first await
ToolsCall(c) ==
    /\ tool.pc = "idle"
    /\ tool' = IF c.name \notin ToolNames \/ ~ValidArgs(c.name, c.args)
               THEN Handling("done", c.name, c.args, <<>>,
                             ErrorResponse(InvalidParams))
               ELSE IF c.name = "get-alerts"
               THEN Handling("alerts", c.name, c.args, <<alertsUrl(c.args)>>,
                             NoResult)
               ELSE Handling("points", c.name, c.args, <<pointsUrl(c.args)>>,
                             NoResult)
    /\ UNCHANGED <<variant, transports, nT, tGen, tSessionId, tInitialized,
                   tClosed, tStream, reqs, sd, obs, last>>

\* the tool function resumes with what makeNWSRequest returned
Resume(data, next) ==
    /\ tool' = IF data.threw THEN [tool EXCEPT !.pc = "done", !.result = Thrown]
               ELSE next
    /\ UNCHANGED <<variant, transports, nT, tGen, tSessionId, tInitialized,
                   tClosed, tStream, reqs, sd, obs, last>>

\* the alerts endpoint replies
AlertsReply(r) ==
    /\ tool.pc = "alerts"
    /\ LET alertsData == makeNWSRequest(r) IN
       Resume(alertsData,
              [tool EXCEPT !.pc = "done",
                           !.result = alertsResult(tool.args, alertsData)])

\* (mutant) a tool function without the check of the forecast URL: the second
\* request is made with whatever the points reply holds
PointsReplyUnchecked(r) ==
    /\ tool.pc = "points"
    /\ LET pointsData == makeNWSRequest(r)
           forecastUrl == IF pointsData.body.present
                          THEN pointsData.body.forecast ELSE Undef
       IN Resume(pointsData,
                 [tool EXCEPT !.pc = "forecast",
                              !.up = Append(@, Text(forecastUrl))])

\* the points endpoint replies
PointsReply(r) ==
    /\ tool.pc = "points"
    /\ LET pointsData == makeNWSRequest(r)
           forecastUrl == IF pointsData.body.present
                          THEN pointsData.body.forecast ELSE Undef
       IN Resume(pointsData,
            IF pointsData.null
            THEN [tool EXCEPT !.pc = "done", !.result =
                    TextResult(<<"Failed to retrieve grid point data for coordinates: ">>
                       \o CoordText(tool.args.latitude.n) \o <<", ">>
                       \o CoordText(tool.args.longitude.n)
                       \o <<". This location may not be supported by the NWS API (only US locations are supported).">>)]
            ELSE IF Falsy(forecastUrl)
            THEN [tool EXCEPT !.pc = "done", !.result =
                    TextResult(<<"Failed to get forecast URL from grid point data">>)]
            ELSE [tool EXCEPT !.pc = "forecast",
                              !.up = Append(@, forecastUrl.s)])

\* the forecast endpoint replies
ForecastReply(r) ==
    /\ tool.pc = "forecast"
    /\ LET forecastData == makeNWSRequest(r) IN
       Resume(forecastData,
              [tool EXCEPT !.pc = "done",
                           !.result = forecastResult(tool.args, forecastData)])

\* the response to the tools/call has been sent
ToolsDone ==
    /\ tool.pc = "done"
    /\ tool' = NoCall
    /\ UNCHANGED <<variant, transports, nT, tGen, tSessionId, tInitialized,
                   tClosed, tStream, reqs, sd, obs, last>>

NextTools ==
    \/ \E c \in Calls : ToolsCall(c)
    \/ \E r \in Replies(AlertsBodies) : AlertsReply(r)
    \/ \E r \in Replies(PointsBodies) : PointsReply(r)
    \/ \E r \in Replies(ForecastBodies) : ForecastReply(r)
    \/ ToolsDone

SpecTools == InitTools /\ [][NextTools]_vars

\* ----------------------------------------------------------------- C23
\* the tool function of the call being handled was entered
Entered == tool.pc # "idle" /\ tool.up # <<>>

\* the first piece of the texts the tools return for an upstream failure
FailureTexts ==
    {"Failed to retrieve alerts data",
     "Failed to retrieve grid point data for coordinates: ",
     "Failed to get forecast URL from grid point data",
     "Failed to retrieve forecast data"}

\* C23: a tools/call whose tool function was entered ends, for every reply of
\* the upstream service, in a result that is no error and holds exactly one
\* block, of type text and not empty; when the request fails, or the points
\* reply carries no forecast URL, the tool function ends at that reply and
\* the text is the failure text of that step; with a body the text is no
\* failure text.
C23_FailuresAsContent ==
    /\ []((Entered /\ tool.pc = "done")
            => /\ tool.result.kind = "result"
               /\ ~tool.result.isError
               /\ Len(tool.result.content) = 1
               /\ tool.result.content[1].type = "text"
               /\ tool.result.content[1].text # <<>>)
    /\ [][(Entered /\ tool' # tool /\ tool'.pc # "idle")
            => LET failed == \E f \in Failures :
                      \/ AlertsReply(Reply(f, NoBody))
                      \/ PointsReply(Reply(f, NoBody))
                      \/ ForecastReply(Reply(f, NoBody))
                   noUrl == \E b \in PointsBodies :
                      /\ Falsy(b.forecast)
                      /\ PointsReply(Reply("ok", b))
               IN /\ (failed \/ noUrl)
                     => /\ tool'.pc = "done"
                        /\ tool'.up = tool.up
                        /\ tool'.result.content[1].text[1] \in FailureTexts
                  /\ (tool'.pc = "done" /\ ~(failed \/ noUrl))
                     => tool'.result.content[1].text[1] \notin FailureTexts]_vars

\* get-forecast has reported the failure of its second upstream request as
\* the text of a result
C23_Witness ==
    /\ tool.pc = "done"
    /\ tool.name = "get-forecast"
    /\ Len(tool.up) = 2
    /\ tool.result = TextResult(<<"Failed to retrieve forecast data">>)

\* ----------------------------------------------------------------- C24
\* the arguments have the shape the documentation gives for the tool
DeclaredShape(name, args) ==
    \/ /\ name = "get-alerts"
       /\ args.state.k = "string"
       /\ Len(args.state.s) = 2
    \/ /\ name = "get-forecast"
       /\ args.latitude.k = "number"
       /\ args.latitude.n \in (0 - 90 * Scale)..(90 * Scale)
       /\ args.longitude.k = "number"
       /\ args.longitude.n \in (0 - 180 * Scale)..(180 * Scale)

\* C24: a tools/call enters the tool function, which then issues its first
\* upstream request, exactly when its arguments have the declared shape (a
\* state of 2 characters; a latitude in [-90, 90] and a longitude in
\* [-180, 180], bounds included); otherwise it is answered with the JSON-RPC
\* error InvalidParams and no upstream request is made.
C24_ValidatedBeforeDispatch ==
    /\ [](Entered => DeclaredShape(tool.name, tool.args))
    /\ [][\A c \in Calls :
            ToolsCall(c)
            => IF DeclaredShape(c.name, c.args)
               THEN /\ tool'.pc \in {"alerts", "points"}
                    /\ Len(tool'.up) = 1
                    /\ tool'.args = c.args
               ELSE /\ tool'.pc = "done"
                    /\ tool'.up = <<>>
                    /\ tool'.result = ErrorResponse(InvalidParams)]_vars

\* get-forecast was entered with both coordinates on a bound of their ranges
C24_Witness ==
    /\ tool.pc = "points"
    /\ tool.args.latitude = Num(90 * Scale)
    /\ tool.args.longitude = Num(0 - 180 * Scale)
    /\ Len(tool.up) = 1

\* ----------------------------------------------------------------- C25
\* C25: when a request that took the creation branch is answered without its
\* transport having accepted the handshake (the connect was rejected, or the
\* transport refused the body), the registry holds no record of that
\* transport afterwards.
C25_FailedCreationLeaksNothing ==
    [][\A i \in 1..Len(reqs) :
          (/\ reqs[i].pc = "connecting"
           /\ reqs' = RemoveAt(reqs, i)
           /\ ~tInitialized'[reqs[i].t])
          => \A S \in Ids : transports'[S] # reqs[i].t]_vars

\* ----------------------------------------------------------------- C26
\* C26: whenever a registered transport that serves no request is closed,
\* the session id its close callback reads is the key the router stored it
\* under, and the record under that key is gone after the step; no record
\* maps to a transport that has been closed and serves no request.
C26_CloseRemovesStoredKey ==
    /\ [](\A S \in Ids :
            (/\ transports[S] # NoT
             /\ \A i \in 1..Len(reqs) : reqs[i].t # transports[S])
            => tClosed[transports[S]] = 0)
    /\ [][\A t \in 1..nT :
            (/\ tClosed'[t] > tClosed[t]
             /\ transports[tGen[t]] = t
             /\ \A i \in 1..Len(reqs) : reqs[i].t # t)
            => /\ tSessionId[t] = tGen[t]
               /\ transports'[tGen[t]] = NoT]_vars

\* ----------------------------------------------------------------- C27
\* a DELETE on transport t is suspended at the close of the transport
Closing(t) == \E i \in 1..Len(reqs) : reqs[i].pc = "closing" /\ reqs[i].t = t

\* C27: while a DELETE is suspended at the close of a transport, the registry
\* holds no record of that transport, and no step hands it a request to
\* serve or opens a stream on it: a POST or GET with the identifier of the
\* DELETE is not answered by that transport (the router answers it as one
\* without record, or it reaches a transport registered since).
C27_NotServedWhileClosing ==
    /\ [](\A t \in 1..nT : Closing(t) => \A S \in Ids : transports[S] # t)
    /\ [][\A t \in 1..nT :
            Closing(t)
            => /\ ~tStream'[t]
               /\ \A i \in 1..Len(reqs') :
                     (reqs'[i].pc = "awaitResp" /\ reqs'[i].t = t)
                     => \E j \in 1..Len(reqs) :
                           /\ reqs[j].pc = "awaitResp"
                           /\ reqs[j].t = t
                           /\ reqs[j].body = reqs'[i].body
               /\ \A sid \in Ids :
                     (tSessionId[t] = sid /\ (Get(sid) \/ \E body \in Bodies :
                                                  Post(sid, body, TRUE)))
                     => (last' # last => last'.t # t)]_vars

\* a GET or POST with the identifier of a session was rejected by the router
\* while the DELETE of that session was suspended at the close
C27_Witness ==
    \E i \in 1..Len(reqs) :
       /\ reqs[i].pc = "closing"
       /\ \A j \in 1..Len(reqs) : reqs[j].verb # "POST"
       /\ last.sid = reqs[i].sid
       /\ last.verb \in {"POST", "GET"}
       /\ last.out = "reject"
       /\ last.t = NoT

\* ----------------------------------------------------------------- C28
\* C28: when the SIGINT handler has reached process.exit, every transport
\* that has a record in the registry has been closed, those stored while the
\* handler was suspended included.
C28_LateSessionsClosed ==
    (sd.pc = "exited")
    => \A S \in Ids : transports[S] # NoT => tClosed[transports[S]] > 0

\* ----------------------------------------------------------------- C30
\* the transports which requests of the creation branch are connecting
Connecting == {reqs[i].t : i \in {j \in 1..Len(reqs) : reqs[j].pc = "connecting"}}

\* C30: two identifiers never map to the same transport and every record
\* maps to a transport that was constructed; every step of the creation
\* branch constructs one transport that no record and no request knew, and
\* one request (the one that called createServer) connects a server to it:
\* no transport is being connected by two requests, and none is connected
\* again after its connect has returned.
C30_Injective ==
    /\ [](/\ \A S1, S2 \in Ids :
               (S1 # S2 /\ transports[S1] # NoT) => transports[S1] # transports[S2]
          /\ \A S \in Ids : transports[S] \in 0..nT
          /\ \A i, j \in 1..Len(reqs) :
               (i # j /\ reqs[i].pc = "connecting") =>
                   ~(reqs[j].pc = "connecting" /\ reqs[j].t = reqs[i].t))
    /\ [][/\ nT' \in {nT, nT + 1}
          /\ Connecting' \subseteq Connecting \cup {nT'}
          /\ (nT' = nT + 1)
               => /\ \A S \in Ids : transports[S] # nT'
                  /\ \A i \in 1..Len(reqs) : reqs[i].t # nT'
                  /\ Cardinality({S \in Ids : transports'[S] = nT'}) = 1
                  /\ Connecting' = Connecting \cup {nT'}
          /\ (nT' = nT) => Connecting' \subseteq Connecting]_vars

\* two identifiers are registered, each with a transport of its own that
\* has accepted its handshake
C30_Witness ==
    \E S1, S2 \in Ids :
       /\ S1 # S2
       /\ transports[S1] # NoT
       /\ transports[S2] # NoT
       /\ transports[S1] # transports[S2]
       /\ tInitialized[transports[S1]]
       /\ tInitialized[transports[S2]]

\* ======================================================= shutdown, live
\* what the SIGINT handler has still to call close() on: the entries of
\* Object.entries(transports) when it starts, the rest of them afterwards
ToVisit == IF sd.pc = "running" THEN Entries ELSE sd.rest

\* (mutant) a loop without try/catch: the rejection leaves the handler and
\* ends the process with entries not visited
CloseRejectsUncaught ==
    /\ sd.pc \in {"running", "closing"}
    /\ ToVisit # <<>>
    /\ sd' = [pc |-> "exited", rest |-> Tail(ToVisit)]
    /\ UNCHANGED <<variant, obs, tool, transports, nT, tGen, tSessionId,
                   tInitialized, tClosed, tStream, reqs, last>>

\* the close() the SIGINT handler calls throws before it has closed anything;
\* the catch block logs the error and the loop goes on from its await
CloseRejects ==
    /\ sd.pc \in {"running", "closing"}
    /\ ToVisit # <<>>
    /\ sd' = [pc |-> "closing", rest |-> Tail(ToVisit)]
    /\ UNCHANGED <<variant, obs, tool, transports, nT, tGen, tSessionId,
                   tInitialized, tClosed, tStream, reqs, last>>

NextShutdown ==
    \/ Next
    \/ CloseRejects

\* every close() the handler awaits returns or throws: the handler resumes
SpecShutdown == Init /\ [][NextShutdown]_vars /\ WF_vars(ShutdownStep)

\* ----------------------------------------------------------------- C31
\* C31: the handler takes the entries in order, each of its steps removing
\* exactly the first entry still to visit, whether the close of that entry
\* returned or threw (a close that did not throw has closed the transport);
\* no entry is in the list twice; the process exits only from a step of the
\* handler that finds no entry left; and once the handler has started, the
\* process exit is reached.
C31_ShutdownTerminates ==
    /\ [](\A i, j \in 1..Len(sd.rest) : i # j => sd.rest[i] # sd.rest[j])
    /\ [][sd' # sd
          => \/ /\ sd.pc # "exited"
                /\ ToVisit # <<>>
                /\ sd' = [pc |-> "closing", rest |-> Tail(ToVisit)]
                /\ \/ tClosed' = [tClosed EXCEPT ![Head(ToVisit)] = @ + 1]
                   \/ CloseRejects
             \/ /\ sd.pc # "exited"
                /\ ToVisit = <<>>
                /\ sd' = [pc |-> "exited", rest |-> <<>>]]_vars
    /\ (sd.pc = "closing") ~> (sd.pc = "exited")

\* the process has exited although the transport constructed first, which
\* was registered when the handler started, is still registered and not
\* closed: its close threw, and the handler went on to close another one
C31_Witness ==
    /\ sd.pc = "exited"
    /\ nT >= 2
    /\ tInitialized[1]
    /\ tClosed[1] = 0
    /\ \E S \in Ids : transports[S] = 1
    /\ \E u \in 2..nT : tInitialized[u] /\ tClosed[u] > 0

\* ----------------------------------------------------------------- C32
\* the upstream requests of a get-forecast call whose function was entered
Requested == IF Entered /\ tool.name = "get-forecast" THEN tool.up ELSE <<>>

\* C32: get-forecast asks the upstream service in two steps, in this order.
\* The first request is the points request for the given coordinates and at
\* most one more follows. The second request appears only at the reply to the
\* points request, and only when that reply is a success whose body holds a
\* forecast URL (a string that is not empty); it is then made to exactly that
\* URL. When the points request fails, or its body holds no forecast URL, the
\* call ends at that reply with no further request and with the failure text
\* of that case.
C32_TwoStepLookup ==
    /\ [](Requested # <<>> =>
            /\ Requested[1] = pointsUrl(tool.args)
            /\ Len(Requested) = IF tool.pc = "points" THEN 1
                                ELSE IF tool.pc = "forecast" THEN 2
                                ELSE Len(Requested)
            /\ Len(Requested) <= 2)
    /\ [][Len(Requested') = 2 /\ Len(Requested) # 2 => tool.pc = "points"]_vars
    /\ [][\A r \in Replies(PointsBodies) :
             tool.pc = "points" /\ PointsReply(r) =>
                IF /\ r.kind = "ok"
                   /\ r.body.present
                   /\ r.body.forecast.k = "string"
                   /\ r.body.forecast.s # <<>>
                THEN tool' = [tool EXCEPT
                                !.pc = "forecast",
                                !.up = <<pointsUrl(tool.args), r.body.forecast.s>>]
                ELSE /\ tool'.pc = "done"
                     /\ tool'.up = tool.up
                     /\ tool'.result = TextResult(
                          IF r.kind # "ok"
                          THEN <<"Failed to retrieve grid point data for coordinates: ">>
                                 \o CoordText(tool.args.latitude.n) \o <<", ">>
                                 \o CoordText(tool.args.longitude.n)
                                 \o <<". This location may not be supported by the NWS API (only US locations are supported).">>
                          ELSE <<"Failed to get forecast URL from grid point data">>)]_vars

\* a forecast request is in flight, made to the URL of the points reply
C32_Witness ==
    /\ tool.pc = "forecast"
    /\ Requested = <<pointsUrl(tool.args), ForecastUrl.s>>

\* ----------------------------------------------------------------- C33
\* C33: the text of a forecast shows, for every period, the period's own
\* temperature whenever the reply supplies one, zero included, and "Unknown"
\* only when the temperature is missing; the text of the alerts replaces a
\* field by its placeholder only when the field is missing. A field is
\* missing when the reply does not hold it or holds the empty string; the
\* other fields of a period are rendered by the same rule.
C33_PlaceholderOnlyWhenMissing ==
 [][LET Missing(v) == v.k = "undefined" \/ (v.k = "string" /\ v.s = <<>>)
        Shown(v, d) == IF Missing(v) THEN d ELSE Text(v)
        PeriodText(p) ==
            Join(<< Shown(p.name, <<"Unknown">>) \o <<":">>,
                    <<"Temperature: ">> \o Shown(p.temperature, <<"Unknown">>)
                       \o <<"°">> \o Shown(p.temperatureUnit, <<"F">>),
                    <<"Wind: ">> \o Shown(p.windSpeed, <<"Unknown">>)
                       \o <<" ">> \o Shown(p.windDirection, <<>>),
                    Shown(p.shortForecast, <<"No forecast available">>),
                    <<"---">> >>)
        AlertText(a) ==
            Join(<< <<"Event: ">> \o Shown(a.event, <<"Unknown">>),
                    <<"Area: ">> \o Shown(a.areaDesc, <<"Unknown">>),
                    <<"Severity: ">> \o Shown(a.severity, <<"Unknown">>),
                    <<"Status: ">> \o Shown(a.status, <<"Unknown">>),
                    <<"Headline: ">> \o Shown(a.headline, <<"No headline">>),
                    <<"---">> >>)
    IN    /\ \A r \in Replies(ForecastBodies) :
               /\ tool.pc = "forecast"
               /\ r.kind = "ok" /\ r.body.present /\ r.body.periods # <<>>
               /\ ForecastReply(r)
               => tool'.result = TextResult(
                     <<"Forecast for ">> \o CoordText(tool.args.latitude.n)
                        \o <<", ">> \o CoordText(tool.args.longitude.n)
                        \o <<":\n\n">>
                        \o Join([i \in 1..Len(r.body.periods) |->
                                   PeriodText(r.body.periods[i])]))
          /\ \A r \in Replies(AlertsBodies) :
               /\ tool.pc = "alerts"
               /\ r.kind = "ok" /\ r.body.present /\ r.body.features # <<>>
               /\ AlertsReply(r)
               => tool'.result = TextResult(
                     <<"Active alerts for ">> \o toUpperCase(tool.args.state.s)
                        \o <<":\n\n">>
                        \o Join([i \in 1..Len(r.body.features) |->
                                   AlertText(r.body.features[i])]))]_vars

====
